---------------------------- MODULE Spec2Model ----------------------------
(***************************************************************************)
(* Model of the JOS kernel monitor (kern/monitor.c): the shell loop, the   *)
(* tokenizer and dispatcher of runcmd, and the command handlers that read  *)
(* and edit the kernel page table and the trapped execution context.       *)
(*                                                                         *)
(* Encoding.  A C string is a sequence of one-character strings.  A        *)
(* pointer is a sequence of length 0 (NULL) or 1 (the object pointed to,   *)
(* or the key of the object in the store it lives in).  32-bit unsigned    *)
(* values are naturals below 2^32; arithmetic that may wrap is reduced     *)
(* modulo 2^32.                                                            *)
(***************************************************************************)
EXTENDS Integers, Sequences, FiniteSets, TLC

(***************************************************************************)
(* 32-bit words.  TLC's integers are narrower than a uint32_t, so a 32-bit *)
(* word is the pair <<pg, off>> of its top 20 bits and its low 12 bits     *)
(* (for an address: page number and page offset), and its value is         *)
(* pg * 2^12 + off.  Every operation below is the operation on uint32_t,   *)
(* reduced modulo 2^32.                                                    *)
(***************************************************************************)
NPG == 1048576

POFF == 4096

W(pg, off) == <<pg, off>>

\* The word of a natural number below 2^31.
FromInt(n) == W(n \div POFF, n % POFF)

\* The natural number of a word below 2^31.
IntOf(a) == a[1] * POFF + a[2]

Add32(a, b) ==
    LET lo == a[2] + b[2]
    IN  W((a[1] + b[1] + lo \div POFF) % NPG, lo % POFF)

Neg32(a) ==
    IF a[2] = 0 THEN W((NPG - a[1]) % NPG, 0)
    ELSE W(NPG - 1 - a[1], POFF - a[2])

Sub32(a, b) == Add32(a, Neg32(b))

\* a * m + d for small m and d, as strtol accumulates a value.
MulAdd32(a, m, d) ==
    LET lo == a[2] * m + d
    IN  W((a[1] * m + lo \div POFF) % NPG, lo % POFF)

Lt32(a, b) == a[1] < b[1] \/ (a[1] = b[1] /\ a[2] < b[2])

Le32(a, b) == a = b \/ Lt32(a, b)

\* a % n, for n below 2^12 or a multiple of 2^12.
Mod32(a, n) ==
    IF n[1] = 0
    THEN W(0, ((a[1] % n[2]) * (POFF % n[2]) + a[2]) % n[2])
    ELSE W(a[1] % n[1], a[2])

RECURSIVE BitAndFrom(_, _, _)
BitAndFrom(a, b, w) ==
    IF a = 0 \/ b = 0 THEN 0
    ELSE (IF a % 2 = 1 /\ b % 2 = 1 THEN w ELSE 0)
         + BitAndFrom(a \div 2, b \div 2, 2 * w)

BitAnd(a, b) == W(BitAndFrom(a[1], b[1], 1), BitAndFrom(a[2], b[2], 1))

BitNot(a) == W(NPG - 1 - a[1], POFF - 1 - a[2])

BitOr(a, b) == Sub32(Add32(a, b), BitAnd(a, b))

(***************************************************************************)
(* Machine constants (inc/mmu.h, inc/memlayout.h, inc/types.h).            *)
(***************************************************************************)
Zero == W(0, 0)

PGSIZE == W(1, 0)

PTSIZE == W(1024, 0)

KERNBASE == W(983040, 0)

KSTACKTOP == KERNBASE

USTACKTOP == W(977918, 0)

PTE_P == W(0, 1)

PTE_W == W(0, 2)

PTE_U == W(0, 4)

PTE_A == W(0, 32)

FL_TF == W(0, 256)

FL_IF == W(0, 512)

T_DEBUG == 1

T_BRKPT == 3

MAXARGS == 16

NULL == <<>>

NUL == "NUL"

WHITESPACE == <<"\t", "\r", "\n", " ">>

(***************************************************************************)
(* Bounds of the model.                                                    *)
(***************************************************************************)
\* Longest address range, in pages, of a typed showmappings/setperm line.
MaxSpan == 3

\* Instructions the resumed environment may still execute.
MaxInsns == 2

\* inc/types.h: ROUNDDOWN and ROUNDUP on uint32_t.
ROUNDDOWN(a, n) == Sub32(a, Mod32(a, n))

ROUNDUP(a, n) == ROUNDDOWN(Sub32(Add32(a, n), W(0, 1)), n)

PGNUM(va) == va[1]

PTE_ADDR(pte) == BitAnd(pte, BitNot(W(0, POFF - 1)))

(***************************************************************************)
(* C strings.                                                              *)
(***************************************************************************)
Range(s) == {s[i] : i \in 1..Len(s)}

\* The character at 1-based position i of a buffer; the terminator past it.
CharAt(b, i) == IF i >= 1 /\ i <= Len(b) THEN b[i] ELSE NUL

\* strchr(s, c) # NULL for a character c other than the terminator.
strchr(s, c) == IF c \in Range(s) THEN <<c>> ELSE NULL

\* strcmp(a, b): 0 exactly when the two strings are equal.
strcmp(a, b) == IF a = b THEN 0 ELSE 1

\* The C string that starts at position p of buffer b.
RECURSIVE CStr(_, _)
CStr(b, p) ==
    IF CharAt(b, p) = NUL THEN <<>> ELSE <<b[p]>> \o CStr(b, p + 1)

(***************************************************************************)
(* strtol(s, NULL, 0) of lib/string.c: optional blanks and sign, base from *)
(* the prefix (0x: 16, 0: 8, else 10), digits up to the first character    *)
(* that is not a digit of the base.  The result is stored in a uintptr_t.  *)
(***************************************************************************)
DigitChars ==
    <<"0", "1", "2", "3", "4", "5", "6", "7", "8", "9",
      "a", "b", "c", "d", "e", "f">>

DigitVal(c) ==
    IF \E k \in 1..Len(DigitChars) : DigitChars[k] = c
    THEN (CHOOSE k \in 1..Len(DigitChars) : DigitChars[k] = c) - 1
    ELSE IF c \in {"A", "B", "C", "D", "E", "F"}
         THEN CASE c = "A" -> 10 [] c = "B" -> 11 [] c = "C" -> 12
                [] c = "D" -> 13 [] c = "E" -> 14 [] OTHER -> 15
         ELSE 99

RECURSIVE strtolDigits(_, _, _, _)
strtolDigits(s, i, base, val) ==
    IF CharAt(s, i) # NUL /\ DigitVal(CharAt(s, i)) < base
    THEN strtolDigits(s, i + 1, base, MulAdd32(val, base, DigitVal(CharAt(s, i))))
    ELSE val

RECURSIVE strtolBlanks(_, _)
strtolBlanks(s, i) ==
    IF CharAt(s, i) \in {" ", "\t"} THEN strtolBlanks(s, i + 1) ELSE i

strtol(s) ==
    LET i0  == strtolBlanks(s, 1)
        neg == CharAt(s, i0) = "-"
        i1  == IF CharAt(s, i0) \in {"+", "-"} THEN i0 + 1 ELSE i0
        hex == CharAt(s, i1) = "0" /\ CharAt(s, i1 + 1) = "x"
        oct == ~hex /\ CharAt(s, i1) = "0"
        i2  == IF hex THEN i1 + 2 ELSE IF oct THEN i1 + 1 ELSE i1
        base == IF hex THEN 16 ELSE IF oct THEN 8 ELSE 10
        val == strtolDigits(s, i2, base, Zero)
    IN  IF neg THEN Neg32(val) ELSE val

(***************************************************************************)
(* Console output: one record per cprintf of interest, holding the format  *)
(* (without colour escapes), its numeric arguments and its string          *)
(* arguments.                                                              *)
(***************************************************************************)
Msg(m, nums, strs) == [msg |-> m, nums |-> nums, strs |-> strs]

Text(m) == Msg(m, <<>>, <<>>)

(***************************************************************************)
(* The command table.                                                      *)
(***************************************************************************)
commands ==
    << [name |-> <<"h","e","l","p">>, func |-> "mon_help"],
       [name |-> <<"k","e","r","n","i","n","f","o">>, func |-> "mon_kerninfo"],
       [name |-> <<"b","a","c","k","t","r","a","c","e">>,
        func |-> "mon_backtrace"],
       [name |-> <<"s","h","u","t","d","o","w","n">>, func |-> "mon_shutdown"],
       [name |-> <<"r","e","s","t","a","r","t">>, func |-> "mon_restart"],
       [name |-> <<"s","h","o","w","m","a","p","p","i","n","g","s">>,
        func |-> "mon_showmappings"],
       [name |-> <<"s","e","t","p","e","r","m">>, func |-> "mon_setperm"],
       [name |-> <<"d","u","m","p">>, func |-> "mon_dump"],
       [name |-> <<"c">>, func |-> "mon_continue"],
       [name |-> <<"s">>, func |-> "mon_step"] >>

(***************************************************************************)
(* State.                                                                  *)
(*   pc          position of the kernel: "entry" (monitor is being called),*)
(*               "prompt" (top of the while loop), "read" (in readline),   *)
(*               "returned" (monitor returned to the trap handler),        *)
(*               "halted" (shutdown, restart, or a kernel fault)           *)
(*   tf          the Trapframe pointer monitor was called with             *)
(*   curenv      the current environment pointer                           *)
(*   kern_pgdir  the page table: page number -> page-table entry, for the  *)
(*               pages that have an entry                                  *)
(*   ebp         what read_ebp() returns inside mon_backtrace              *)
(*   debug_flag  monitor's local of that name                              *)
(*   buf         the pointer readline returned last                        *)
(*   argv, call, ret   what runcmd parsed, which handler it called (with   *)
(*               which arguments), and what it returned, for the last line *)
(*   out         the console output since the last prompt                  *)
(*   walks       the addresses passed to pgdir_walk by the last command    *)
(*   reads       the addresses of the memory the last command read         *)
(*   insns       instructions the environment executed since it resumed    *)
(*   cause       why monitor was entered                                   *)
(*   last_exit   the handler that ended the previous session               *)
(***************************************************************************)
VARIABLES pc, tf, curenv, kern_pgdir, ebp, debug_flag, buf, argv, call, ret,
          out, walks, reads, insns, cause, last_exit

vars == <<pc, tf, curenv, kern_pgdir, ebp, debug_flag, buf, argv, call, ret,
          out, walks, reads, insns, cause, last_exit>>

(***************************************************************************)
(* External collaborators.                                                 *)
(***************************************************************************)
\* pgdir_walk(pgdir, va, 0): a pointer to the entry of va's page, or NULL.
pgdir_walk(pgdir, va) ==
    IF PGNUM(va) \in DOMAIN pgdir THEN <<PGNUM(va)>> ELSE NULL

\* Physical memory size, in pages (npages of kern/pmap.c).
npages == 4

\* The frames of the kernel stack: frame pointer -> saved frame pointer.
FP1 == Sub32(KSTACKTOP, W(0, 96))

FP2 == Sub32(KSTACKTOP, W(0, 64))

FP3 == Sub32(KSTACKTOP, W(0, 32))

GP1 == Sub32(KSTACKTOP, W(0, 160))

UFP == Sub32(USTACKTOP, W(0, 64))

SavedEbp == (FP1 :> FP2) @@ (FP2 :> FP3) @@ (FP3 :> Zero) @@ (GP1 :> UFP)
            @@ (UFP :> Zero)

\* The 32-bit word at virtual address a.
MemWord(a) ==
    IF a \in DOMAIN SavedEbp THEN SavedEbp[a]
    ELSE W(a[1] % 16, (a[2] * 37 + 11) % POFF)

\* The byte at physical address pa.
MemByte(pa) == (pa[1] * 7 + pa[2] * 13 + 5) % 256

\* KADDR / PADDR of kern/pmap.h; KADDR panics on an address beyond memory.
KADDR_ok(pa) == PGNUM(pa) < npages

KADDR(pa) == Add32(pa, KERNBASE)

PADDR(va) == Sub32(va, KERNBASE)

\* Whether a read of virtual address va succeeds under kern_pgdir, and the
\* physical address it reads.
Readable(va) ==
    \/ Le32(KERNBASE, va) /\ PGNUM(Sub32(va, KERNBASE)) < npages
    \/ /\ PGNUM(va) \in DOMAIN kern_pgdir
       /\ BitAnd(kern_pgdir[PGNUM(va)], PTE_P) # Zero

Translate(va) ==
    IF Le32(KERNBASE, va) THEN Sub32(va, KERNBASE)
    ELSE Add32(PTE_ADDR(kern_pgdir[PGNUM(va)]), Mod32(va, PGSIZE))

(***************************************************************************)
(* What a handler does: its result, the page table and trapframe it        *)
(* leaves, its output and its reads.  noreturn: the handler does not       *)
(* return (the machine stops or the kernel panics).  nullderef: it read a  *)
(* field through a NULL curenv.                                            *)
(***************************************************************************)
Eff0(t) ==
    [ret |-> 0, pgdir |-> kern_pgdir, tf |-> t, out |-> <<>>, walks |-> <<>>,
     reads |-> <<>>, noreturn |-> FALSE, nullderef |-> FALSE,
     argv |-> <<>>, call |-> NULL]

\* argv[k], with C's 0-based index.
Arg(av, k) == av[k + 1]

mon_help(argc, av, t) ==
    [Eff0(t) EXCEPT !.out = [i \in 1..Len(commands) |->
                               Msg("%s - %s", <<i>>, <<commands[i].name>>)]]

mon_kerninfo(argc, av, t) ==
    [Eff0(t) EXCEPT !.out = <<Text("Special kernel symbols:"),
                              Text("  _start"), Text("  entry"),
                              Text("  etext"), Text("  edata"), Text("  end"),
                              Text("Kernel executable memory footprint")>>]

mon_shutdown(argc, av, t) == [Eff0(t) EXCEPT !.noreturn = TRUE]

mon_restart(argc, av, t) ==
    [Eff0(t) EXCEPT !.noreturn = TRUE, !.out = <<Text("Restart failed!")>>]

(***************************************************************************)
(* backtrace.                                                              *)
(***************************************************************************)
\* The while loop of mon_backtrace from frame pointer fp on.
\* *(ebp + k), in words.
\* Mutant: the offset is taken in bytes.
MutWordAtByteOffset(fp, k) ==
    MemWord(Add32(fp, W(0, k)))

WordAt(fp, k) ==
    MemWord(Add32(fp, W(0, 4 * k)))

\* Mutant: the loop never tests for the boundary of the kernel stack.
RECURSIVE MutBacktraceLoopNoBoundary(_, _)
MutBacktraceLoopNoBoundary(fp, e) ==
    IF fp = Zero THEN e
    ELSE LET eip  == WordAt(fp, 1)
             e1   == [e EXCEPT
                        !.out = e.out \o
                           << Msg("  ebp %x  eip %x  args",
                                  <<fp, WordAt(fp, 1), WordAt(fp, 2),
                                    WordAt(fp, 3), WordAt(fp, 4),
                                    WordAt(fp, 5), WordAt(fp, 6)>>, <<>>),
                              Msg("         %s:%d: %.*s+%d", <<eip>>, <<>>) >>,
                        !.reads = e.reads \o
                           [k \in 1..6 |-> Add32(fp, W(0, 4 * k))] \o <<fp>>]
         IN  MutBacktraceLoopNoBoundary(MemWord(fp), e1)

RECURSIVE BacktraceLoop(_, _)
BacktraceLoop(fp, e) ==
    IF fp = Zero THEN e
    ELSE LET eip  == WordAt(fp, 1)
             e1   == [e EXCEPT
                        !.out = e.out \o
                           << Msg("  ebp %x  eip %x  args",
                                  <<fp, WordAt(fp, 1), WordAt(fp, 2),
                                    WordAt(fp, 3), WordAt(fp, 4),
                                    WordAt(fp, 5), WordAt(fp, 6)>>, <<>>),
                              Msg("         %s:%d: %.*s+%d", <<eip>>, <<>>) >>,
                        !.reads = e.reads \o
                           [k \in 1..6 |-> Add32(fp, W(0, 4 * k))] \o <<fp>>]
             next == MemWord(fp)
         IN  IF curenv # NULL /\ Lt32(next, Sub32(KSTACKTOP, PTSIZE))
             THEN [e1 EXCEPT !.out = e1.out \o
                                <<Msg("  ebp %x  (user env)", <<next>>, <<>>)>>]
             ELSE BacktraceLoop(next, e1)

mon_backtrace(argc, av, t) ==
    LET env_id == IF curenv = NULL THEN MemWord(W(0, 72))
                  ELSE curenv[1].env_id
        e0 == [Eff0(t) EXCEPT
                 !.out = <<Text("Stack backtrace:"),
                           Msg("[INFO] curenv %08x", <<env_id>>, <<>>)>>,
                 !.nullderef = (curenv = NULL)]
    IN  BacktraceLoop(ebp, e0)

(***************************************************************************)
(* showmappings.                                                           *)
(***************************************************************************)
\* Mutant: the write and present positions are swapped.
MutPermStringSwapped(pte) ==
    << IF BitAnd(pte, PTE_U) # Zero THEN "U" ELSE "-",
       "R",
       IF BitAnd(pte, PTE_P) # Zero THEN "P" ELSE "-",
       IF BitAnd(pte, PTE_W) # Zero THEN "W" ELSE "-" >>

PermString(pte) ==
    << IF BitAnd(pte, PTE_U) # Zero THEN "U" ELSE "-",
       "R",
       IF BitAnd(pte, PTE_W) # Zero THEN "W" ELSE "-",
       IF BitAnd(pte, PTE_P) # Zero THEN "P" ELSE "-" >>

RECURSIVE ShowLoop(_, _, _)
ShowLoop(start, end, e) ==
    IF ~Lt32(start, end) THEN e
    ELSE LET pte_ptr == pgdir_walk(e.pgdir, start)
             span    == <<start, Add32(start, PGSIZE)>>
             line    == IF pte_ptr = NULL
                        THEN Msg("Not mapped ----", span, <<>>)
                        ELSE Msg("0x%08x ",
                                 span \o <<PTE_ADDR(e.pgdir[pte_ptr[1]])>>,
                                 <<PermString(e.pgdir[pte_ptr[1]])>>)
         IN  ShowLoop(Add32(start, PGSIZE), end,
                      [e EXCEPT !.out = Append(e.out, line),
                                !.walks = Append(e.walks, start)])

mon_showmappings3(start, end, t) ==
    ShowLoop(start, end,
             [Eff0(t) EXCEPT
                !.out = <<Text("   START         END        PHYS    PERM")>>])

\* Mutant: the alignment of end is not checked.
MutInvalidRangeNoEndCheck(start, end) ==
    \/ start # ROUNDUP(start, PGSIZE)
    \/ Le32(end, start)

InvalidRange(start, end) ==
    \/ start # ROUNDUP(start, PGSIZE)
    \/ end # ROUNDUP(end, PGSIZE)
    \/ Le32(end, start)

mon_showmappings(argc, av, t) ==
    IF argc = 2 \/ argc = 3
    THEN LET start == strtol(Arg(av, 1))
             end   == IF argc = 2 THEN Add32(start, PGSIZE)
                                  ELSE strtol(Arg(av, 2))
         IN  IF InvalidRange(start, end)
             THEN [Eff0(t) EXCEPT !.out = <<Text("Invalid address!")>>]
             ELSE mon_showmappings3(start, end, t)
    ELSE [Eff0(t) EXCEPT
            !.out = <<Text("Usage: showmappings START_ADDR [END_ADDR]")>>]

(***************************************************************************)
(* setperm.                                                                *)
(***************************************************************************)
\* Mutant: the bits are set but never cleared.
MutSetPermBitsNeverClears(pte, perm) ==
    LET u == IF CharAt(perm, 1) = "U" THEN BitOr(pte, PTE_U) ELSE pte
    IN  IF CharAt(perm, 2) = "W" THEN BitOr(u, PTE_W) ELSE u

\* Mutant: the edit also clears the present bit.
MutSetPermBitsDropsPresent(pte, perm) ==
    LET u == IF CharAt(perm, 1) = "U" THEN BitOr(pte, PTE_U)
                                      ELSE BitAnd(pte, BitNot(PTE_U))
        w == IF CharAt(perm, 2) = "W" THEN BitOr(u, PTE_W)
                                      ELSE BitAnd(u, BitNot(PTE_W))
    IN  BitAnd(w, BitNot(PTE_P))

\* The edit of one existing entry.
SetPermBits(pte, perm) ==
    LET u == IF CharAt(perm, 1) = "U" THEN BitOr(pte, PTE_U)
                                      ELSE BitAnd(pte, BitNot(PTE_U))
    IN  IF CharAt(perm, 2) = "W" THEN BitOr(u, PTE_W)
                                 ELSE BitAnd(u, BitNot(PTE_W))

RECURSIVE SetPermLoop(_, _, _, _)
SetPermLoop(start, end, perm, e) ==
    IF ~Lt32(start, end) THEN e
    ELSE LET pte_ptr == pgdir_walk(e.pgdir, start)
             e1 == IF pte_ptr = NULL
                   THEN [e EXCEPT
                           !.out = Append(e.out,
                                     Msg("Address 0x%08x not mapped! Skipping...",
                                         <<start>>, <<>>))]
                   ELSE [e EXCEPT
                           !.pgdir[pte_ptr[1]] =
                               SetPermBits(e.pgdir[pte_ptr[1]], perm)]
         IN  SetPermLoop(Add32(start, PGSIZE), end, perm,
                         [e1 EXCEPT !.walks = Append(e1.walks, start)])

mon_setperm4(start, end, perm, t) == SetPermLoop(start, end, perm, Eff0(t))

InvalidPerm(perm) ==
    \/ CharAt(perm, 1) # "-" /\ CharAt(perm, 1) # "U"
    \/ CharAt(perm, 2) # "-" /\ CharAt(perm, 2) # "W"

mon_setperm(argc, av, t) ==
    IF argc # 3 /\ argc # 4
    THEN [Eff0(t) EXCEPT
            !.out = <<Text("Usage: setperm PERM START_ADDR [END_ADDR]")>>]
    ELSE LET start == strtol(Arg(av, 2))
             end   == IF argc = 3 THEN Add32(start, PGSIZE)
                                  ELSE strtol(Arg(av, 3))
             perm  == Arg(av, 1)
         IN  IF InvalidRange(start, end)
             THEN [Eff0(t) EXCEPT !.out = <<Text("Invalid address!")>>]
             ELSE IF InvalidPerm(perm)
             THEN [Eff0(t) EXCEPT !.out = <<Text("Invalid permission!")>>]
             ELSE mon_setperm4(start, end, perm, t)

(***************************************************************************)
(* dump.  The loop reads one byte per address; a read of an address that   *)
(* is not mapped faults in kernel mode, which panics.                      *)
(***************************************************************************)
\* The for loop of __mon_dump4v / __mon_dump4p over [vstart, vend); each
\* line's prefix is the address itself, or PADDR of it when physical.
DumpLoop(vstart, vend, physical, t) ==
    LET n    == IF Lt32(vstart, vend) THEN IntOf(Sub32(vend, vstart)) ELSE 0
        addr(k) == Add32(vstart, FromInt(k - 1))
        bad  == {k \in 1..n : ~Readable(addr(k))}
        m    == IF bad = {} THEN n
                ELSE (CHOOSE k \in bad : \A j \in bad : k <= j) - 1
        byte(i) == MemByte(Translate(i))
        prefix(i) == IF physical THEN PADDR(i) ELSE i
    IN  [Eff0(t) EXCEPT
           !.out = [k \in 1..m |->
                      LET i == addr(k)
                      IN  IF Mod32(i, W(0, 16)) = Zero
                          THEN Msg("\n0x%08x: %02x ", <<prefix(i), byte(i)>>, <<>>)
                          ELSE Msg("%02x ", <<byte(i)>>, <<>>)]
                   \o (IF bad = {} THEN <<Text("\n")>>
                                   ELSE <<Text("kernel page fault")>>),
           !.reads = [k \in 1..m |-> addr(k)],
           !.noreturn = (bad # {})]

mon_dump4v(start, end, t) == DumpLoop(start, end, FALSE, t)

\* Mutant: the physical addresses are read as virtual ones.
MutDump4pNoKaddr(start, end, t) ==
    DumpLoop(start, end, TRUE, t)

mon_dump4p(start, end, t) ==
    IF ~KADDR_ok(start) \/ ~KADDR_ok(end)
    THEN [Eff0(t) EXCEPT !.noreturn = TRUE,
                         !.out = <<Text("KADDR called with invalid pa")>>]
    ELSE DumpLoop(KADDR(start), KADDR(end), TRUE, t)

mon_dump(argc, av, t) ==
    IF argc # 3 /\ argc # 4
    THEN [Eff0(t) EXCEPT
            !.out = <<Text("Usage: dump TYPE START_ADDR [END_ADDR]")>>]
    ELSE LET start == strtol(Arg(av, 2))
             end   == IF argc = 3 THEN Add32(start, PGSIZE)
                                  ELSE strtol(Arg(av, 3))
         IN  IF CharAt(Arg(av, 1), 1) = "V" THEN mon_dump4v(start, end, t)
             ELSE IF CharAt(Arg(av, 1), 1) = "P" THEN mon_dump4p(start, end, t)
             ELSE [Eff0(t) EXCEPT !.out = <<Text("Invalid address type!")>>]

(***************************************************************************)
(* c and s.                                                                *)
(***************************************************************************)
\* Mutant: no check of tf.
MutContinueNoTfCheck(argc, av, t) ==
    IF t = NULL
    THEN [Eff0(t) EXCEPT !.ret = -1]
    ELSE [Eff0(t) EXCEPT
            !.tf = <<[t[1] EXCEPT
                        !.tf_eflags = BitAnd(@, BitNot(FL_TF))]>>,
            !.ret = -1]

\* Mutant: the mask is FL_TF instead of ~FL_TF.
MutContinueMasksFlags(argc, av, t) ==
    IF t = NULL
    THEN [Eff0(t) EXCEPT !.out = <<Text("No trapframe found.")>>]
    ELSE [Eff0(t) EXCEPT
            !.tf = <<[t[1] EXCEPT !.tf_eflags = BitAnd(@, FL_TF)]>>,
            !.ret = -1]

mon_continue(argc, av, t) ==
    IF t = NULL
    THEN [Eff0(t) EXCEPT !.out = <<Text("No trapframe found.")>>]
    ELSE [Eff0(t) EXCEPT
            !.tf = <<[t[1] EXCEPT
                        !.tf_eflags = BitAnd(@, BitNot(FL_TF))]>>,
            !.ret = -1]

\* Mutant: the body of mon_continue, copied.
MutStepClearsFlag(argc, av, t) ==
    IF t = NULL
    THEN [Eff0(t) EXCEPT !.out = <<Text("No trapframe found.")>>]
    ELSE [Eff0(t) EXCEPT
            !.tf = <<[t[1] EXCEPT
                        !.tf_eflags = BitAnd(@, BitNot(FL_TF))]>>,
            !.ret = -1]

\* Mutant: no check of tf.
MutStepNoTfCheck(argc, av, t) ==
    IF t = NULL
    THEN [Eff0(t) EXCEPT !.ret = -1]
    ELSE [Eff0(t) EXCEPT
            !.tf = <<[t[1] EXCEPT !.tf_eflags = BitOr(@, FL_TF)]>>,
            !.ret = -1]

mon_step(argc, av, t) ==
    IF t = NULL
    THEN [Eff0(t) EXCEPT !.out = <<Text("No trapframe found.")>>]
    ELSE [Eff0(t) EXCEPT
            !.tf = <<[t[1] EXCEPT !.tf_eflags = BitOr(@, FL_TF)]>>,
            !.ret = -1]

(***************************************************************************)
(* runcmd: the tokenizer and the dispatcher.                               *)
(***************************************************************************)
\* "gobble whitespace": overwrite each whitespace character with the terminator.
RECURSIVE Gobble(_, _)
Gobble(b, i) ==
    IF CharAt(b, i) # NUL /\ strchr(WHITESPACE, CharAt(b, i)) # NULL
    THEN Gobble([b EXCEPT ![i] = NUL], i + 1)
    ELSE [buf |-> b, i |-> i]

\* Mutant: only the space ends an argument.
RECURSIVE MutScanArgSpaceOnly(_, _)
MutScanArgSpaceOnly(b, i) ==
    IF CharAt(b, i) # NUL /\ CharAt(b, i) # " "
    THEN MutScanArgSpaceOnly(b, i + 1)
    ELSE i

\* "scan past next arg".
RECURSIVE ScanArg(_, _)
ScanArg(b, i) ==
    IF CharAt(b, i) # NUL /\ strchr(WHITESPACE, CharAt(b, i)) = NULL
    THEN ScanArg(b, i + 1)
    ELSE i

\* Mutant: the limit is tested one argument late.
RECURSIVE MutParseLoopLateLimit(_, _, _)
MutParseLoopLateLimit(b, i, ptrs) ==
    LET g == Gobble(b, i)
    IN  IF CharAt(g.buf, g.i) = NUL
        THEN [toomany |-> FALSE, buf |-> g.buf, ptrs |-> ptrs]
        ELSE IF Len(ptrs) = MAXARGS
        THEN [toomany |-> TRUE, buf |-> g.buf, ptrs |-> ptrs]
        ELSE MutParseLoopLateLimit(g.buf, ScanArg(g.buf, g.i),
                                   Append(ptrs, g.i))

\* The parse loop from position i with the argument pointers ptrs found so
\* far: the buffer it leaves and the pointers, or toomany.
RECURSIVE ParseLoop(_, _, _)
ParseLoop(b, i, ptrs) ==
    LET g == Gobble(b, i)
    IN  IF CharAt(g.buf, g.i) = NUL
        THEN [toomany |-> FALSE, buf |-> g.buf, ptrs |-> ptrs]
        ELSE IF Len(ptrs) = MAXARGS - 1
        THEN [toomany |-> TRUE, buf |-> g.buf, ptrs |-> ptrs]
        ELSE ParseLoop(g.buf, ScanArg(g.buf, g.i), Append(ptrs, g.i))

\* Mutant: the comparison stops at the end of the typed name.
RECURSIVE MutLookupFromPrefix(_, _)
MutLookupFromPrefix(name, i) ==
    IF i > Len(commands) THEN 0
    ELSE IF Len(name) <= Len(commands[i].name)
            /\ SubSeq(commands[i].name, 1, Len(name)) = name THEN i
    ELSE MutLookupFromPrefix(name, i + 1)

\* The linear scan of the command table: the index of the first entry whose
\* name strcmp finds equal, or 0.
RECURSIVE LookupFrom(_, _)
LookupFrom(name, i) ==
    IF i > Len(commands) THEN 0
    ELSE IF strcmp(name, commands[i].name) = 0 THEN i
    ELSE LookupFrom(name, i + 1)

Lookup(name) == LookupFrom(name, 1)

\* commands[i].func(argc, argv, tf)
Invoke(func, argc, av, t) ==
    CASE func = "mon_help"         -> mon_help(argc, av, t)
      [] func = "mon_kerninfo"     -> mon_kerninfo(argc, av, t)
      [] func = "mon_backtrace"    -> mon_backtrace(argc, av, t)
      [] func = "mon_shutdown"     -> mon_shutdown(argc, av, t)
      [] func = "mon_restart"      -> mon_restart(argc, av, t)
      [] func = "mon_showmappings" -> mon_showmappings(argc, av, t)
      [] func = "mon_setperm"      -> mon_setperm(argc, av, t)
      [] func = "mon_dump"         -> mon_dump(argc, av, t)
      [] func = "mon_continue"     -> mon_continue(argc, av, t)
      [] func = "mon_step"         -> mon_step(argc, av, t)

runcmd(b, t) ==
    LET p    == ParseLoop(b, 1, <<>>)
        av   == [k \in 1..Len(p.ptrs) |-> CStr(p.buf, p.ptrs[k])]
        argc == Len(av)
        i    == Lookup(av[1])
    IN  IF p.toomany
        THEN [Eff0(t) EXCEPT
                !.out = <<Msg("Too many arguments (max %d)", <<MAXARGS>>, <<>>)>>]
        ELSE IF argc = 0 THEN Eff0(t)
        ELSE IF i # 0
        THEN [Invoke(commands[i].func, argc, av, t) EXCEPT
                !.argv = av,
                !.call = <<[func |-> commands[i].func, argc |-> argc,
                            argv |-> av, tf |-> t]>>]
        ELSE [Eff0(t) EXCEPT
                !.argv = av,
                !.out = <<Msg("Unknown command '%s'", <<>>, <<av[1]>>)>>]

(***************************************************************************)
(* The lines typed at the prompt.  A line is a sequence of tokens laid out *)
(* with a spacing: the whitespace before the first token, between two      *)
(* tokens and after the last.                                              *)
(***************************************************************************)
\* Addresses: aligned, unaligned, and the last page.
AddrTokens ==
    { <<"0", "x", "1", "0", "0", "0">>,
      <<"0", "x", "2", "0", "0", "0">>,
      <<"0", "x", "4", "0", "0", "0">>,
      <<"0", "x", "1", "8", "0", "0">>,
      <<"0", "x", "f", "f", "f", "f", "f", "0", "0", "0">> }

\* Permission codes, accepted and not.
PermTokens ==
    { <<"U", "W">>,
      <<"-", "-">>,
      <<"U", "-">>,
      <<"-", "W">>,
      <<"U", "W", "x">>,
      <<"W", "-">>,
      <<"U">> }

\* Address types of dump.
TypeTokens ==
    { <<"V">>,
      <<"P">>,
      <<"v">>,
      <<"V", "x">> }

\* First tokens that are not command names.
OtherNames ==
    { <<"H", "e", "l", "p">>,
      <<"h", "e", "l">>,
      <<"h", "e", "l", "p", "x">>,
      <<"C">>,
      <<"x">> }

CmdName(f) == (CHOOSE i \in 1..Len(commands) : commands[i].func = f)

TokName(f) == commands[CmdName(f)].name

Names == {commands[i].name : i \in 1..Len(commands)}

\* One or two addresses; a pair spans at most MaxSpan pages.
RangeArgs ==
    {<<a>> : a \in AddrTokens}
    \cup {<<q[1], q[2]>> :
            q \in {r \in AddrTokens \X AddrTokens :
                     PGNUM(strtol(r[2])) - PGNUM(strtol(r[1])) <= MaxSpan}}

\* The ranges typed to setperm.
SetpermArgs ==
    { <<<<"0", "x", "1", "0", "0", "0">>>>,
      <<<<"0", "x", "1", "0", "0", "0">>, <<"0", "x", "4", "0", "0", "0">>>>,
      <<<<"0", "x", "2", "0", "0", "0">>, <<"0", "x", "4", "0", "0", "0">>>>,
      <<<<"0", "x", "1", "8", "0", "0">>, <<"0", "x", "4", "0", "0", "0">>>>,
      <<<<"0", "x", "1", "0", "0", "0">>, <<"0", "x", "1", "8", "0", "0">>>>,
      <<<<"0", "x", "4", "0", "0", "0">>, <<"0", "x", "1", "0", "0", "0">>>>,
      <<<<"0", "x", "f", "f", "f", "f", "f", "0", "0", "0">>>> }

\* n copies of the token x.
Pad(n) == [k \in 1..n |-> <<"x">>]

TokenSeqs ==
    {<<n>> : n \in Names \cup OtherNames}
    \cup {<<TokName("mon_showmappings")>> \o r : r \in RangeArgs}
    \cup { <<TokName("mon_showmappings")>>,
           <<TokName("mon_showmappings"), <<"4", "0", "9", "6">>, <<"8", "1", "9", "2">>>>,
           <<TokName("mon_showmappings"), <<"0", "1", "0", "0", "0", "0">>>> }
    \cup {<<TokName("mon_setperm"), p>> \o r : p \in PermTokens, r \in SetpermArgs}
    \cup {<<TokName("mon_setperm"), <<"U", "W">>>>}
    \cup {<<TokName("mon_dump"), ty, <<"0", "x", "f", "0", "0", "0", "0", "f", "f", "e">>, <<"0", "x", "f", "0", "0", "0", "1", "0", "1", "2">>>> :
            ty \in TypeTokens}
    \cup {<<TokName("mon_dump"), ty, <<"0", "x", "f", "f", "e">>, <<"0", "x", "1", "0", "1", "2">>>> :
            ty \in TypeTokens}
    \cup {<<TokName("mon_dump"), <<"V">>>>}
    \cup {<<TokName("mon_dump"), ty, <<"0", "x", "f", "0", "0", "0", "1", "0", "1", "2">>, <<"0", "x", "f", "0", "0", "0", "0", "f", "f", "e">>>> :
            ty \in {<<"V">>}}
    \cup {<<TokName("mon_dump"), ty, <<"0", "x", "1", "0", "0", "0">>, <<"0", "x", "1", "0", "1", "1">>>> :
            ty \in {<<"P">>}}
    \cup {<<n>> \o Pad(k) : n \in {TokName("mon_continue"),
                                   TokName("mon_setperm"), <<"x">>},
                            k \in {MAXARGS - 3, MAXARGS - 2, MAXARGS - 1}}

Spacing(lead, sep, trail) == [lead |-> lead, sep |-> sep, trail |-> trail]

Tight == Spacing(<<>>, <<" ">>, <<>>)

Spacings ==
    { Spacing(<<" ", " ">>, <<" ", " ", " ">>, <<" ">>),
      Spacing(<<"\t">>, <<"\t", " ">>, <<"\r", "\n">>),
      Spacing(<<>>, <<"\n">>, <<"\t">>) }

RECURSIVE Join(_, _)
Join(ts, sep) ==
    IF Len(ts) = 0 THEN <<>>
    ELSE IF Len(ts) = 1 THEN ts[1]
    ELSE ts[1] \o sep \o Join(Tail(ts), sep)

Render(ts, sp) == sp.lead \o Join(ts, sp.sep) \o sp.trail

\* Token sequences typed with every spacing.
SpacedSeqs ==
    { <<TokName("mon_step")>>,
      <<TokName("mon_setperm"), <<"U", "W">>, <<"0", "x", "1", "0", "0", "0">>, <<"0", "x", "4", "0", "0", "0">>>>,
      <<TokName("mon_continue")>> \o Pad(MAXARGS - 2),
      <<<<"a">>, <<"b">>, <<"c">>>> }

Lines ==
    {Render(ts, Tight) : ts \in TokenSeqs}
    \cup {Render(ts, sp) : ts \in SpacedSeqs, sp \in Spacings}
    \cup {<<>>, <<" ">>, <<" ", "\t", "\r", "\n">>}

(***************************************************************************)
(* Initial states: how the kernel reaches monitor().                       *)
(***************************************************************************)
\* The page table the monitor finds: page number -> entry.  Page 1 is
\* present and writable, page 3 has an entry that is not present.
InitTable ==
    (1 :> BitOr(W(273, 0), BitOr(PTE_P, PTE_W)))
    @@ (3 :> BitOr(W(819, 0), BitOr(PTE_U, PTE_A)))

Trapframe(eflags, trapno) ==
    [tf_eflags |-> eflags, tf_eip |-> W(2048, 0), tf_esp |-> UFP,
     tf_trapno |-> trapno]

Env == <<[env_id |-> W(1, 0)]>>

\* tf, curenv, the frame pointer in mon_backtrace, and why monitor is called.
Scenarios ==
    { [tf |-> NULL, curenv |-> NULL, ebp |-> FP1, cause |-> "init"],
      [tf |-> NULL, curenv |-> Env, ebp |-> FP3, cause |-> "panic"],
      [tf |-> <<Trapframe(BitOr(FL_IF, W(0, 2)), T_BRKPT)>>, curenv |-> Env,
       ebp |-> GP1, cause |-> "brkpt"],
      [tf |-> <<Trapframe(BitOr(BitOr(FL_IF, FL_TF), W(0, 70)), T_DEBUG)>>, curenv |-> NULL,
       ebp |-> Zero, cause |-> "debug"] }

Init ==
    /\ pc = "entry"
    /\ \E sc \in Scenarios :
          /\ tf = sc.tf
          /\ curenv = sc.curenv
          /\ ebp = sc.ebp
          /\ cause = sc.cause
    /\ kern_pgdir = InitTable
    /\ debug_flag = FALSE
    /\ buf = NULL
    /\ argv = <<>>
    /\ call = NULL
    /\ ret = 0
    /\ out = <<>>
    /\ walks = <<>>
    /\ reads = <<>>
    /\ insns = 0
    /\ last_exit = "none"

(***************************************************************************)
(* monitor().                                                              *)
(***************************************************************************)
\* Mutant: any trapframe selects the single-step mode.
MutDebugFlagAnyTf(t) ==
    t # NULL

\* bool debug_flag = tf && (tf->tf_eflags & FL_TF);
DebugFlag(t) == t # NULL /\ BitAnd(t[1].tf_eflags, FL_TF) # Zero

\* Entry: the banner and the trapframe, up to the while loop.
monitor_entry ==
    /\ pc = "entry"
    /\ debug_flag' = DebugFlag(tf)
    /\ out' = (IF DebugFlag(tf)
               THEN <<Text("Single step debugging..."),
                      Text("Type 'c' to continue, 's' to step.")>>
               ELSE <<Text("Welcome to the JOS kernel monitor!"),
                      Text("Type 'help' for a list of commands.")>>)
              \o (IF tf # NULL THEN <<Text("print_trapframe")>> ELSE <<>>)
    /\ pc' = "prompt"
    /\ UNCHANGED <<tf, curenv, kern_pgdir, ebp, buf, argv, call, ret, walks,
                   reads, insns, cause, last_exit>>

\* The prompt at the top of the loop.  With debug_flag set it reads
\* curenv->env_id: through a NULL curenv that read either faults (the kernel
\* panics) or yields whatever is stored at that address.
PromptText ==
    IF debug_flag
    THEN Msg("[%08x] Debug> ",
             <<IF curenv = NULL THEN MemWord(W(0, 72)) ELSE curenv[1].env_id>>, <<>>)
    ELSE Text("K> ")

monitor_prompt ==
    /\ pc = "prompt"
    /\ out' = <<PromptText>>
    /\ pc' = "read"
    /\ buf' = NULL
    /\ argv' = <<>>
    /\ call' = NULL
    /\ ret' = 0
    /\ walks' = <<>>
    /\ reads' = <<>>
    /\ UNCHANGED <<tf, curenv, kern_pgdir, ebp, debug_flag, insns, cause,
                   last_exit>>

monitor_prompt_fault ==
    /\ pc = "prompt"
    /\ debug_flag
    /\ curenv = NULL
    /\ out' = <<Text("kernel page fault")>>
    /\ pc' = "halted"
    /\ buf' = NULL
    /\ argv' = <<>>
    /\ call' = NULL
    /\ ret' = 0
    /\ walks' = <<>>
    /\ reads' = <<>>
    /\ UNCHANGED <<tf, curenv, kern_pgdir, ebp, debug_flag, insns, cause,
                   last_exit>>

\* readline returned NULL: the loop goes round.
monitor_readline_null ==
    /\ pc = "read"
    /\ buf' = NULL
    /\ pc' = "prompt"
    /\ UNCHANGED <<tf, curenv, kern_pgdir, ebp, debug_flag, argv, call, ret,
                   out, walks, reads, insns, cause, last_exit>>

\* What the loop does with runcmd's effect e on the line read.
Apply(line, e) ==
    /\ buf' = <<line>>
    /\ argv' = e.argv
    /\ call' = e.call
    /\ ret' = e.ret
    /\ out' = out \o e.out
    /\ walks' = e.walks
    /\ reads' = e.reads
    /\ kern_pgdir' = e.pgdir
    /\ tf' = e.tf
    /\ UNCHANGED <<curenv, ebp, debug_flag, insns, cause>>

\* readline returned a line: runcmd, and break on a negative result.  A
\* handler that read through a NULL curenv either faulted there or went on.
monitor_runcmd ==
    /\ pc = "read"
    /\ \E line \in Lines :
          LET e == runcmd(line, tf)
          IN  \/ /\ Apply(line, e)
                 /\ pc' = IF e.noreturn THEN "halted"
                          ELSE IF e.ret < 0 THEN "returned"
                          ELSE "prompt"
                 /\ last_exit' = IF ~e.noreturn /\ e.ret < 0
                                 THEN e.call[1].func ELSE last_exit
              \/ /\ e.nullderef
                 /\ Apply(line, [e EXCEPT
                                   !.out = <<e.out[1], Text("kernel page fault")>>,
                                   !.reads = <<>>])
                 /\ pc' = "halted"
                 /\ UNCHANGED last_exit

(***************************************************************************)
(* The trap path (kern/trap.c, kern/env.c): monitor returned, the trapped  *)
(* environment is resumed with the saved flags.                            *)
(***************************************************************************)
\* Trap flag set: one instruction executes and the debug exception re-enters
\* the monitor with the flag still in the saved flags.
trap_single_step ==
    /\ pc = "returned"
    /\ tf # NULL
    /\ BitAnd(tf[1].tf_eflags, FL_TF) # Zero
    /\ tf[1].tf_eip[2] < MaxInsns
    /\ tf' = <<[tf[1] EXCEPT !.tf_eip = Add32(@, W(0, 1)),
                             !.tf_trapno = T_DEBUG]>>
    /\ insns' = 1
    /\ cause' = "debug"
    /\ pc' = "entry"
    /\ UNCHANGED <<curenv, kern_pgdir, ebp, debug_flag, buf, argv, call, ret,
                   out, walks, reads, last_exit>>

\* Trap flag clear: the environment runs until it executes a breakpoint.
trap_breakpoint ==
    /\ pc = "returned"
    /\ tf # NULL
    /\ BitAnd(tf[1].tf_eflags, FL_TF) = Zero
    /\ \E k \in 1..MaxInsns :
          /\ tf[1].tf_eip[2] + k <= MaxInsns
          /\ tf' = <<[tf[1] EXCEPT !.tf_eip = Add32(@, W(0, k)),
                                   !.tf_trapno = T_BRKPT]>>
          /\ insns' = k
    /\ cause' = "brkpt"
    /\ pc' = "entry"
    /\ UNCHANGED <<curenv, kern_pgdir, ebp, debug_flag, buf, argv, call, ret,
                   out, walks, reads, last_exit>>

\* Trap flag clear: the environment runs to completion; with nothing left
\* to run the kernel calls monitor(NULL).
trap_run_to_completion ==
    /\ pc = "returned"
    /\ tf # NULL
    /\ BitAnd(tf[1].tf_eflags, FL_TF) = Zero
    /\ \E k \in 1..MaxInsns :
          /\ tf[1].tf_eip[2] + k <= MaxInsns
          /\ insns' = k
    /\ tf' = NULL
    /\ curenv' = NULL
    /\ ebp' = FP1
    /\ cause' = "idle"
    /\ pc' = "entry"
    /\ UNCHANGED <<kern_pgdir, debug_flag, buf, argv, call, ret, out, walks,
                   reads, last_exit>>

Next ==
    \/ monitor_entry
    \/ monitor_prompt
    \/ monitor_prompt_fault
    \/ monitor_readline_null
    \/ monitor_runcmd
    \/ trap_single_step
    \/ trap_breakpoint
    \/ trap_run_to_completion

Spec == Init /\ [][Next]_vars

(***************************************************************************)
(* Vocabulary of the properties, stated on the typed line and on the bits  *)
(* of the words, independently of the operators above.                     *)
(***************************************************************************)
IsBlank(c) == c = "\t" \/ c = "\r" \/ c = "\n" \/ c = " "

\* Where the maximal runs of non-whitespace characters of a line start.
RunStarts(l) ==
    {i \in 1..Len(l) : ~IsBlank(l[i]) /\ (i = 1 \/ IsBlank(l[i - 1]))}

RunEnd(l, i) ==
    CHOOSE j \in i..Len(l) :
        /\ \A k \in i..j : ~IsBlank(l[k])
        /\ (j = Len(l) \/ IsBlank(l[j + 1]))

\* The maximal runs of non-whitespace characters of a line, left to right.
RunsFrom(l, st) ==
    [n \in 1..Cardinality(st) |->
       LET i == CHOOSE i \in st : Cardinality({j \in st : j < i}) = n - 1
       IN  SubSeq(l, i, RunEnd(l, i))]

Runs(l) == RunsFrom(l, RunStarts(l))

\* Bit b (a power of two below 2^12) of a word.
LowBit(w, b) == (w[2] \div b) % 2 = 1

\* The loop has just run runcmd on a line (this step).
RanLine == pc = "read" /\ buf' # NULL

\* The state after runcmd ran a line.
AfterLine == pc \in {"prompt", "returned", "halted"} /\ buf # NULL

\* The handler f was called in this step / for the last line.
Called(c, f) == c # NULL /\ c[1].func = f

\* The range a showmappings (first = 1) or setperm (first = 2) call is given.
RangeStart(c, first) == strtol(c.argv[first + 1])

RangeEnd(c, first) ==
    IF c.argc = first + 1 THEN Add32(RangeStart(c, first), W(1, 0))
    ELSE strtol(c.argv[first + 2])

HasRange(c, first) == c.argc = first + 1 \/ c.argc = first + 2

BadRange(start, end) == start[2] # 0 \/ end[2] # 0 \/ ~Lt32(start, end)

\* The pages of an aligned range, in ascending order.
PagesOf(start, end) == [k \in 1..(end[1] - start[1]) |-> W(start[1] + k - 1, 0)]

ValidCodes == {<<"-", "-">>, <<"-", "W">>, <<"U", "-">>, <<"U", "W">>}

\* A setperm call whose argument count and range pass validation.
SetpermInRange(c) ==
    /\ Called(c, "mon_setperm")
    /\ HasRange(c[1], 2)
    /\ ~BadRange(RangeStart(c[1], 2), RangeEnd(c[1], 2))

\* A showmappings call whose argument count and range pass validation.
ShowInRange(c) ==
    /\ Called(c, "mon_showmappings")
    /\ HasRange(c[1], 1)
    /\ ~BadRange(RangeStart(c[1], 1), RangeEnd(c[1], 1))

\* The subsequence of the elements of s that satisfy Keep.
SelectPages(s, pgdir) ==
    LET F[i \in 0..Len(s)] ==
            IF i = 0 THEN <<>>
            ELSE IF s[i][1] \in DOMAIN pgdir THEN F[i - 1]
            ELSE Append(F[i - 1], s[i])
    IN  F[Len(s)]

ExitLine(l) ==
    LET r == Runs(l)
    IN  Len(r) \in 1..(MAXARGS - 1) /\ r[1] \in {<<"c">>, <<"s">>}

KeepsRunning(l, t) ==
    LET r == Runs(l)
    IN  \/ r = <<>>
        \/ Len(r) >= MAXARGS
        \/ r[1] \notin Names
        \/ r[1] \in {<<"c">>, <<"s">>} /\ t = NULL
        \/ r[1] \in {TokName("mon_help"), TokName("mon_kerninfo"),
                     TokName("mon_showmappings"), TokName("mon_setperm")}
        \/ r[1] = TokName("mon_dump")
           /\ (Len(r) \notin {3, 4} \/ r[2][1] \notin {"V", "P"})

(***************************************************************************)
(* C1.  The shell loop exits exactly when the line dispatches c or s with  *)
(* a captured context present, and then on a negative result; an absent    *)
(* line, an empty line, an unknown command, too many arguments, a command  *)
(* with invalid arguments and c or s without a context keep the loop       *)
(* running.  A shell entered with no context never exits the loop.         *)
(***************************************************************************)
C1_LoopExitsOnlyOnContinueOrStep ==
    [][pc = "read" =>
         /\ (pc' = "returned") <=>
               (tf # NULL /\ buf' # NULL /\ ExitLine(buf'[1]))
         /\ (pc' = "returned" => ret' < 0 /\ tf # NULL)
         /\ (buf' = NULL \/ KeepsRunning(buf'[1], tf)) => pc' = "prompt"]_vars

C1_Witness ==
    /\ pc = "returned"
    /\ ret < 0
    /\ Called(call, "mon_continue")
    /\ call[1].argc = MAXARGS - 1

BadRangeCall(c) ==
    \/ /\ Called(c, "mon_showmappings")
       /\ HasRange(c[1], 1)
       /\ BadRange(RangeStart(c[1], 1), RangeEnd(c[1], 1))
    \/ /\ Called(c, "mon_setperm")
       /\ HasRange(c[1], 2)
       /\ BadRange(RangeStart(c[1], 2), RangeEnd(c[1], 2))

(***************************************************************************)
(* C2.  showmappings and setperm given a range whose start or end is not   *)
(* page-aligned, or with start >= end, print "Invalid address!", return a  *)
(* non-terminating result, look up no page and change no entry.            *)
(***************************************************************************)
C2_InvalidRangeRejected ==
    [][(RanLine /\ BadRangeCall(call')) =>
         /\ out' = Append(out, Text("Invalid address!"))
         /\ ret' = 0
         /\ pc' = "prompt"
         /\ walks' = <<>>
         /\ kern_pgdir' = kern_pgdir]_vars

C2_Witness ==
    /\ AfterLine
    /\ Called(call, "mon_setperm")
    /\ BadRangeCall(call)
    /\ call[1].argv[2] \in ValidCodes
    /\ RangeEnd(call[1], 2)[2] # 0
    /\ out[Len(out)] = Text("Invalid address!")

(***************************************************************************)
(* C3.  setperm with a code other than --, -W, U-, UW (codes with extra    *)
(* trailing characters included) prints "Invalid permission!" and changes  *)
(* no entry, also on a valid range with mapped pages.                      *)
(***************************************************************************)
C3_InvalidCodeRejected ==
    [][(RanLine /\ SetpermInRange(call') /\ call'[1].argv[2] \notin ValidCodes) =>
         /\ out' = Append(out, Text("Invalid permission!"))
         /\ kern_pgdir' = kern_pgdir]_vars

(***************************************************************************)
(* C4.  After setperm with a valid code and a valid range, every page of   *)
(* [start, end) that has an entry has its user bit equal to                *)
(* (code[0] = 'U') and its write bit equal to (code[1] = 'W'); every page  *)
(* of the range without an entry is reported and skipped, and the scan     *)
(* goes on over the whole range.                                           *)
(***************************************************************************)
C4_SetpermEditsMappedPages ==
    [][(RanLine /\ SetpermInRange(call') /\ call'[1].argv[2] \in ValidCodes) =>
         LET code  == call'[1].argv[2]
             pages == PagesOf(RangeStart(call'[1], 2), RangeEnd(call'[1], 2))
             skipped == SelectPages(pages, kern_pgdir)
         IN  /\ DOMAIN kern_pgdir' = DOMAIN kern_pgdir
             /\ \A k \in 1..Len(pages) :
                   pages[k][1] \in DOMAIN kern_pgdir =>
                      /\ LowBit(kern_pgdir'[pages[k][1]], 4) = (code[1] = "U")
                      /\ LowBit(kern_pgdir'[pages[k][1]], 2) = (code[2] = "W")
             /\ out' = out \o
                   [k \in 1..Len(skipped) |->
                      Msg("Address 0x%08x not mapped! Skipping...",
                          <<skipped[k]>>, <<>>)]
             /\ walks' = pages
             /\ ret' = 0]_vars

C4_Witness ==
    /\ AfterLine
    /\ SetpermInRange(call)
    /\ call[1].argv[2] = <<"-", "-">>
    /\ walks = <<W(1, 0), W(2, 0), W(3, 0)>>
    /\ Len(out) = 2
    /\ ~LowBit(kern_pgdir[1], 2)
    /\ ~LowBit(kern_pgdir[3], 4)

(***************************************************************************)
(* C5.  For a page-aligned range with start < end, showmappings visits     *)
(* the (end - start) / PGSIZE pages of the range, each once, in ascending  *)
(* order, and prints for each "Not mapped" when the page has no entry and  *)
(* otherwise the frame base of the entry and the four positions U/-, R,    *)
(* W/-, P/-.                                                               *)
(***************************************************************************)
C5_ShowmappingsVisitsRange ==
    [][(RanLine /\ ShowInRange(call')) =>
         LET pages == PagesOf(RangeStart(call'[1], 1), RangeEnd(call'[1], 1))
             n     == Len(pages)
             line(k) == out'[Len(out) + 1 + k]
         IN  /\ n = RangeEnd(call'[1], 1)[1] - RangeStart(call'[1], 1)[1]
             /\ walks' = pages
             /\ Len(out') = Len(out) + 1 + n
             /\ \A k \in 1..n :
                   IF pages[k][1] \notin DOMAIN kern_pgdir
                   THEN line(k) = Msg("Not mapped ----",
                                      <<pages[k], Add32(pages[k], W(1, 0))>>,
                                      <<>>)
                   ELSE LET pte == kern_pgdir[pages[k][1]]
                        IN  /\ line(k).nums = <<pages[k],
                                                Add32(pages[k], W(1, 0)),
                                                W(pte[1], 0)>>
                            /\ line(k).strs =
                                 << << IF LowBit(pte, 4) THEN "U" ELSE "-",
                                       "R",
                                       IF LowBit(pte, 2) THEN "W" ELSE "-",
                                       IF LowBit(pte, 1) THEN "P" ELSE "-" >> >>
             /\ kern_pgdir' = kern_pgdir]_vars

C5_Witness ==
    /\ AfterLine
    /\ ShowInRange(call)
    /\ walks = <<W(1, 0), W(2, 0), W(3, 0)>>
    /\ out[3].strs = << <<"-", "R", "W", "P">> >>
    /\ out[4].msg = "Not mapped ----"
    /\ out[5].strs = << <<"U", "R", "-", "-">> >>

InSession == pc \in {"prompt", "read"}

(***************************************************************************)
(* C6.  A session that follows a resume after s was entered by the debug   *)
(* exception after exactly one instruction, with the trap flag set in the  *)
(* saved flags, and prompts in single-step mode; after c the trap flag is  *)
(* clear when the environment resumes, and the session that follows, if    *)
(* any, was not entered by the debug exception.                            *)
(***************************************************************************)
C6_StepThenContinue ==
    /\ (InSession /\ last_exit = "mon_step") =>
          /\ cause = "debug"
          /\ insns = 1
          /\ debug_flag
          /\ tf # NULL /\ LowBit(tf[1].tf_eflags, 256)
    /\ (pc = "returned" /\ last_exit = "mon_continue") =>
          ~LowBit(tf[1].tf_eflags, 256)
    /\ (InSession /\ last_exit = "mon_continue") =>
          /\ cause # "debug"
          /\ ~debug_flag

C6_Witness ==
    /\ pc = "read"
    /\ last_exit = "mon_step"
    /\ cause = "debug"
    /\ insns = 1
    /\ debug_flag

WithTrapFlag(flags, on) ==
    W(flags[1],
      flags[2] - (IF LowBit(flags, 256) THEN 256 ELSE 0) + (IF on THEN 256 ELSE 0))

(***************************************************************************)
(* C7.  With a captured context present, c leaves the trap-flag bit of the *)
(* saved flags clear and s leaves it set, whatever it was, both return -1, *)
(* and no other bit of the flags and no other field of the context         *)
(* changes.                                                                *)
(***************************************************************************)
C7_OnlyTrapFlagChanges ==
    [][(RanLine /\ tf # NULL
          /\ (Called(call', "mon_continue") \/ Called(call', "mon_step"))) =>
         /\ ret' = -1
         /\ tf' # NULL
         /\ tf'[1] = [tf[1] EXCEPT
                        !.tf_eflags =
                            WithTrapFlag(@, Called(call', "mon_step"))]]_vars

C7_Witness ==
    /\ pc = "returned"
    /\ Called(call, "mon_continue")
    /\ cause = "debug"
    /\ tf[1].tf_eflags = W(0, 512 + 70)

(***************************************************************************)
(* C8.  c and s without a captured context report "No trapframe found",    *)
(* change nothing, and return a non-terminating result: the loop goes on.  *)
(***************************************************************************)
C8_NoTrapframe ==
    [][(RanLine /\ tf = NULL
          /\ (Called(call', "mon_continue") \/ Called(call', "mon_step"))) =>
         /\ out' = Append(out, Text("No trapframe found."))
         /\ ret' = 0
         /\ pc' = "prompt"
         /\ UNCHANGED <<tf, curenv, kern_pgdir, ebp, debug_flag, insns, cause,
                        last_exit>>]_vars

C8_Witness ==
    /\ pc = "prompt"
    /\ Called(call, "mon_step")
    /\ tf = NULL
    /\ ret = 0
    /\ out[Len(out)] = Text("No trapframe found.")

(***************************************************************************)
(* C9.  For a line of at most 15 tokens the argument list is the sequence  *)
(* of the maximal runs of non-whitespace characters of the line, left to   *)
(* right; for an empty or all-whitespace line it is empty, no handler is   *)
(* called and the result is non-terminating.                               *)
(***************************************************************************)
C9_TokensAreMaximalRuns ==
    (AfterLine /\ Len(Runs(buf[1])) <= MAXARGS - 1) =>
       /\ argv = Runs(buf[1])
       /\ Runs(buf[1]) = <<>> => (call = NULL /\ ret = 0 /\ pc = "prompt")

C9_Witness ==
    /\ AfterLine
    /\ buf[1] = <<"\t", "a", "\t", " ", "b", "\t", " ", "c", "\r", "\n">>
    /\ argv = << <<"a">>, <<"b">>, <<"c">> >>

\* What C10 says of a step that ran a line whose tokens are r.
DispatchExact(r) ==
    /\ Len(r) \in 1..(MAXARGS - 1) =>
          IF call' # NULL
          THEN /\ call'[1].argv = r
               /\ call'[1].argc = Len(call'[1].argv)
               /\ call'[1].tf = tf
               /\ \E i \in 1..Len(commands) :
                     /\ commands[i].name = call'[1].argv[1]
                     /\ commands[i].func = call'[1].func
                     /\ \A j \in 1..(i - 1) :
                           commands[j].name # call'[1].argv[1]
          ELSE /\ r[1] \notin Names
               /\ out' = Append(out, Msg("Unknown command '%s'", <<>>,
                                         <<argv'[1]>>))
               /\ argv' = r
               /\ ret' = 0
               /\ pc' = "prompt"
               /\ kern_pgdir' = kern_pgdir
               /\ tf' = tf

(***************************************************************************)
(* C10.  A handler is called exactly when the first argument equals a      *)
(* name of the command table character for character, and then it is the   *)
(* handler of that name, called with the whole argument vector and the     *)
(* current context; for any other first argument no handler runs,          *)
(* "Unknown command" is printed with that argument, the result is          *)
(* non-terminating, and the page table and the context are unchanged.      *)
(***************************************************************************)
C10_DispatchIsExact ==
    [][RanLine => DispatchExact(Runs(buf'[1]))]_vars

C10_Witness ==
    /\ pc = "prompt"
    /\ call = NULL
    /\ argv = << <<"h", "e", "l", "p", "x">> >>
    /\ out[Len(out)].msg = "Unknown command '%s'"

\* A dump call with an argument count that passes the usage test.
DumpCall(c) ==
    Called(c, "mon_dump") /\ c[1].argc \in {3, 4}

(***************************************************************************)
(* C11.  dump with a TYPE argument that is not V and not P prints          *)
(* "Invalid address type!", returns a non-terminating result and reads no  *)
(* memory; only the letters V and P select an address space.               *)
(***************************************************************************)
C11_InvalidTypeRejected ==
    [][(RanLine /\ DumpCall(call')
          /\ call'[1].argv[2] \notin {<<"V">>, <<"P">>}) =>
         /\ out' = Append(out, Text("Invalid address type!"))
         /\ reads' = <<>>
         /\ ret' = 0
         /\ pc' = "prompt"]_vars

\* The bytes a dump printed, in the order printed, from its messages.
DumpBytes(msgs) ==
    LET F[i \in 0..Len(msgs)] ==
            IF i = 0 THEN <<>>
            ELSE IF msgs[i].msg \in {"\n0x%08x: %02x ", "%02x "}
            THEN Append(F[i - 1], msgs[i].nums[Len(msgs[i].nums)])
            ELSE F[i - 1]
    IN  F[Len(msgs)]

\* The messages this step added to the console.
NewOut == SubSeq(out', Len(out) + 1, Len(out'))

\* The range a dump call is given.
DumpStart(c) == strtol(c.argv[3])

DumpEnd(c) ==
    IF c.argc = 3 THEN Add32(DumpStart(c), W(1, 0)) ELSE strtol(c.argv[4])

\* [start, end) lies in physical memory.
InPhysMem(start, end) == start[1] < npages /\ end[1] < npages

\* [start, end) lies in the kernel's map of physical memory.
InKernMap(start, end) ==
    /\ start[1] >= KERNBASE[1] /\ start[1] - KERNBASE[1] < npages
    /\ end[1] >= KERNBASE[1] /\ end[1] - KERNBASE[1] < npages

\* The bytes of physical memory from start up to end.
PhysBytes(start, end) ==
    [k \in 1..(IF Lt32(start, end) THEN IntOf(Sub32(end, start)) ELSE 0) |->
       MemByte(Add32(start, FromInt(k - 1)))]

\* What C12 says of a dump of type ty over [s, e) that printed bytes.
DumpAgrees(ty, s, e, bytes, t) ==
    /\ (ty = <<"P">> /\ InPhysMem(s, e)) =>
          /\ bytes = PhysBytes(s, e)
          /\ bytes = DumpBytes(mon_dump4v(Add32(s, KERNBASE),
                                         Add32(e, KERNBASE), t).out)
    /\ (ty = <<"V">> /\ InKernMap(s, e)) =>
          /\ bytes = PhysBytes(Sub32(s, KERNBASE), Sub32(e, KERNBASE))
          /\ bytes = DumpBytes(mon_dump4p(Sub32(s, KERNBASE),
                                         Sub32(e, KERNBASE), t).out)

SixteenPerLine(s, va, n) ==
    [k \in 1..n |->
       LET byte == MemByte(Translate(Add32(va, FromInt(k - 1))))
       IN  IF (k - 1) % 16 = 0
           THEN Msg("\n0x%08x: %02x ",
                    <<Add32(s, FromInt(k - 1)), byte>>, <<>>)
           ELSE Msg("%02x ", <<byte>>, <<>>)]
    \o <<Text("\n")>>

\* What C13 says of a dump of type ty over [s, e) that printed msgs and read
\* the addresses rd.
DumpLaidOut(ty, s, e, msgs, rd) ==
    LET n  == IF Lt32(s, e) THEN IntOf(Sub32(e, s)) ELSE 0
        va == IF ty = <<"P">> THEN Add32(s, KERNBASE) ELSE s
    IN  /\ rd = [k \in 1..n |-> Add32(va, FromInt(k - 1))]
        /\ msgs = SixteenPerLine(s, va, n)

(***************************************************************************)
(* C13.  dump reads the bytes at start up to end, each once in ascending   *)
(* order (none when start >= end), and prints them 16 to a line, every     *)
(* line of bytes begun by a "0x<address>:" prefix with the address of the  *)
(* line's first byte, also for a start that is not a multiple of 16; for   *)
(* P the prefix is the physical address.                                   *)
(***************************************************************************)
C13_DumpLayout ==
    [][(RanLine /\ DumpCall(call')
          /\ \/ /\ call'[1].argv[2] = <<"V">>
                /\ InKernMap(DumpStart(call'[1]), DumpEnd(call'[1]))
             \/ /\ call'[1].argv[2] = <<"P">>
                /\ InPhysMem(DumpStart(call'[1]), DumpEnd(call'[1]))) =>
         DumpLaidOut(call'[1].argv[2], DumpStart(call'[1]),
                     DumpEnd(call'[1]), NewOut, reads')]_vars

\* The messages of a console output whose format is m, in order.
MsgsOf(msgs, m) ==
    LET F[i \in 0..Len(msgs)] ==
            IF i = 0 THEN <<>>
            ELSE IF msgs[i].msg = m THEN Append(F[i - 1], msgs[i])
            ELSE F[i - 1]
    IN  F[Len(msgs)]

\* The frame lines and the boundary markers of a backtrace.
FrameLines(msgs) == MsgsOf(msgs, "  ebp %x  eip %x  args")

MarkerLines(msgs) == MsgsOf(msgs, "  ebp %x  (user env)")

\* A pointer below the kernel-stack region.
BelowKernelStack(p) == Lt32(p, Sub32(KSTACKTOP, PTSIZE))

\* A backtrace call that returned.
BacktraceReturned ==
    RanLine /\ Called(call', "mon_backtrace") /\ pc' = "prompt"

\* What C14 says of a backtrace from frame pointer fp0 that printed msgs and
\* read the addresses rd; env: a current environment exists.
FollowsChain(fp0, env, msgs, rd) ==
    LET fr == FrameLines(msgs)
        mk == MarkerLines(msgs)
        n  == Len(fr)
        stop == IF n = 0 THEN fp0 ELSE MemWord(fr[n].nums[1])
    IN  /\ msgs[1] = Text("Stack backtrace:")
        /\ n = 0 <=> fp0 = Zero
        /\ \A k \in 1..n :
              /\ fr[k].nums[1] = IF k = 1 THEN fp0 ELSE MemWord(fr[k - 1].nums[1])
              /\ fr[k].nums[1] # Zero
              /\ k < n => ~(env /\ BelowKernelStack(fr[k].nums[1]))
        /\ stop = Zero \/ (env /\ BelowKernelStack(stop))
        /\ IF n > 0 /\ env /\ BelowKernelStack(stop)
           THEN /\ mk = <<Msg("  ebp %x  (user env)", <<stop>>, <<>>)>>
                /\ msgs[Len(msgs)] = mk[1]
                /\ \A i \in 1..Len(rd) : rd[i][1] # stop[1]
           ELSE mk = <<>>

(***************************************************************************)
(* C14.  backtrace prints one frame entry per frame pointer of the chain   *)
(* of saved frame pointers, in chain order from the current frame pointer, *)
(* and stops at the first null frame pointer (a null current frame pointer *)
(* gives the header and no frames) or, with a current environment, at the  *)
(* first next frame pointer below the kernel-stack region, where it prints *)
(* the boundary marker and does not read through that pointer.             *)
(***************************************************************************)
C14_BacktraceFollowsChain ==
    [][BacktraceReturned =>
         FollowsChain(ebp, curenv # NULL, NewOut, reads')]_vars

C14_Witness ==
    /\ pc = "prompt"
    /\ Called(call, "mon_backtrace")
    /\ curenv # NULL
    /\ ebp = GP1
    /\ Len(FrameLines(out)) = 1
    /\ out[4].nums[1] = GP1
    /\ out[Len(out)] = Msg("  ebp %x  (user env)", <<UFP>>, <<>>)

\* The words at offsets lo..hi, in words, from the frame pointer fp.
FrameWords(fp, lo, hi) ==
    [k \in 1..(hi - lo + 1) |-> MemWord(Add32(fp, W(0, 4 * (lo + k - 1))))]

\* Every frame line of msgs shows its frame pointer, the word at +1 and the
\* argument words at +2 .. +last.
FramesShow(msgs, last) ==
    \A k \in 1..Len(FrameLines(msgs)) :
       LET f == FrameLines(msgs)[k]
       IN  f.nums = <<f.nums[1]>> \o FrameWords(f.nums[1], 1, last)

(***************************************************************************)
(* C15 (amended).  For every frame it prints, backtrace prints the frame   *)
(* pointer, the saved return address at offset +1 word, and five argument  *)
(* words, those at offsets +2 through +6 words from the frame pointer.     *)
(***************************************************************************)
C15_FrameShowsFiveArgs ==
    [][BacktraceReturned => FramesShow(NewOut, 6)]_vars

C15_Witness ==
    /\ pc = "prompt"
    /\ Called(call, "mon_backtrace")
    /\ ebp = FP1
    /\ Len(FrameLines(out)) = 3
    /\ out[4].nums = <<FP1>> \o FrameWords(FP1, 1, 6)
    /\ Len(out[4].nums) = 7

\* C15 as stated: six argument words, those at offsets +2 through +7.
C15_FrameShowsSixArgs ==
    [][BacktraceReturned => FramesShow(NewOut, 7)]_vars

\* What C16 says of a step that ran a line whose tokens are r.
TokenLimit(r) ==
    IF Len(r) >= MAXARGS
    THEN /\ out' = Append(out, Msg("Too many arguments (max %d)", <<16>>, <<>>))
         /\ call' = NULL
         /\ ret' = 0
         /\ pc' = "prompt"
         /\ kern_pgdir' = kern_pgdir
         /\ tf' = tf
    ELSE /\ argv' = r
         /\ (argv' # <<>> /\ argv'[1] \in Names) =>
               /\ call' # NULL
               /\ call'[1].argc = Len(argv')
               /\ call'[1].argv = argv'
               /\ TokName(call'[1].func) = argv'[1]

(***************************************************************************)
(* C16.  A line of 16 tokens or more prints the "too many arguments"       *)
(* diagnostic, calls no handler (also when the first token is a command    *)
(* name such as c, s or setperm), changes no page-table entry and no field *)
(* of the context, and returns a non-terminating result; a line of fewer   *)
(* tokens is split into its tokens and dispatched.                         *)
(***************************************************************************)
C16_TooManyArguments ==
    [][RanLine => TokenLimit(Runs(buf'[1]))]_vars

C16_Witness ==
    /\ pc = "prompt"
    /\ buf # NULL
    /\ tf # NULL
    /\ Len(Runs(buf[1])) = MAXARGS
    /\ Runs(buf[1])[1] = <<"c">>
    /\ call = NULL
    /\ out[Len(out)].msg = "Too many arguments (max %d)"

\* An entry with its user and write bits taken out.
WithoutUW(w) ==
    W(w[1], w[2] - (IF LowBit(w, 4) THEN 4 ELSE 0)
                 - (IF LowBit(w, 2) THEN 2 ELSE 0))

\* This step ran a setperm whose range and code passed its validation.
SetpermPassed ==
    /\ RanLine
    /\ SetpermInRange(call')
    /\ \A i \in (Len(out) + 1)..Len(out') :
          out'[i] # Text("Invalid permission!")

\* Page number p lies in the range of the setperm call c.
InSetpermRange(p, c) ==
    /\ RangeStart(c[1], 2)[1] <= p
    /\ p < RangeEnd(c[1], 2)[1]

(***************************************************************************)
(* C17.  In every step the set of pages that have an entry stays the same, *)
(* and an entry changes only in a step that runs a setperm whose           *)
(* validation passed, only for a page of that command's range, and only in *)
(* its user and write bits: the frame base, the present bit and every      *)
(* other bit keep their values.  help, kerninfo, showmappings, dump,       *)
(* backtrace, c and s therefore change no entry.                           *)
(***************************************************************************)
C17_OnlySetpermEditsEntries ==
    [][/\ DOMAIN kern_pgdir' = DOMAIN kern_pgdir
       /\ \A p \in DOMAIN kern_pgdir :
             kern_pgdir'[p] # kern_pgdir[p] =>
                /\ SetpermPassed
                /\ InSetpermRange(p, call')
                /\ WithoutUW(kern_pgdir'[p]) = WithoutUW(kern_pgdir[p])]_vars

C17_Witness ==
    /\ AfterLine
    /\ SetpermInRange(call)
    /\ RangeStart(call[1], 2) = W(2, 0)
    /\ call[1].argv[2] = <<"U", "W">>
    /\ kern_pgdir[1] = W(273, 1)
    /\ kern_pgdir[3] = W(819, 4 + 32 + 2)

\* A context is present and the trap-flag bit of its saved flags is set.
StepMode(t) ==
    t # NULL /\ LowBit(t[1].tf_eflags, 256)

\* The prompt of a mode.
PromptOf(step) ==
    IF step THEN "[%08x] Debug> " ELSE "K> "

(***************************************************************************)
(* C18.  The prompt mode of a session is fixed at entry: single-step mode  *)
(* exactly when a context is present with the trap-flag bit set, normal    *)
(* mode otherwise (also with no context).  Every prompt of the session is  *)
(* printed in that mode, no later step changes the mode, and a command     *)
(* that keeps the loop running leaves the context's trap flag as it was.   *)
(***************************************************************************)
C18_PromptModeFixedAtEntry ==
    [][/\ (pc = "entry") => (debug_flag' = StepMode(tf))
       /\ (pc # "entry") => (debug_flag' = debug_flag)
       /\ (pc = "prompt" /\ pc' = "read") =>
             /\ debug_flag = StepMode(tf)
             /\ out'[Len(out')].msg = PromptOf(StepMode(tf))
       /\ (pc = "read" /\ pc' = "prompt") =>
             /\ StepMode(tf') = StepMode(tf)
             /\ debug_flag' = StepMode(tf')]_vars

C18_Witness ==
    /\ pc = "read"
    /\ debug_flag
    /\ curenv # NULL
    /\ cause = "debug"
    /\ tf # NULL
    /\ out = <<Msg("[%08x] Debug> ", <<curenv[1].env_id>>, <<>>)>>
    /\ kern_pgdir # InitTable

\* This step ran showmappings START or setperm PERM START, END omitted, with
\* a valid code and the page-aligned address s as START.
ShorthandAt(s) ==
    /\ RanLine
    /\ \/ /\ Called(call', "mon_showmappings")
          /\ call'[1].argc = 2
          /\ RangeStart(call'[1], 1) = s
       \/ /\ Called(call', "mon_setperm")
          /\ call'[1].argc = 3
          /\ call'[1].argv[2] \in ValidCodes
          /\ RangeStart(call'[1], 2) = s
    /\ s[2] = 0

\* The page-aligned addresses typed as START.
AlignedStarts == {a \in {strtol(t) : t \in AddrTokens} : a[2] = 0}

(***************************************************************************)
(* C19.  The single-page shorthand works for every page-aligned start of   *)
(* the 32-bit address space: showmappings START and setperm PERM START     *)
(* take end = start + page size and process the one page at START, also    *)
(* when START is the last page, where start + page size wraps to 0.        *)
(***************************************************************************)
C19_ShorthandEveryPage ==
    [][\A s \in AlignedStarts :
          ShorthandAt(s) =>
             /\ walks' = <<s>>
             /\ \A i \in (Len(out) + 1)..Len(out') :
                   out'[i] # Text("Invalid address!")]_vars

(***************************************************************************)
(* C20.  backtrace never reads a field of the current environment when     *)
(* there is none: in a shell entered with no environment it prints the     *)
(* header and the frames and returns a non-terminating result, and no      *)
(* line of its output shows a field read through the absent environment.   *)
(***************************************************************************)
C20_BacktraceWithoutEnv ==
    [][(RanLine /\ Called(call', "mon_backtrace") /\ curenv = NULL) =>
         /\ pc' = "prompt"
         /\ ret' = 0
         /\ out'[Len(out) + 1] = Text("Stack backtrace:")
         /\ (ebp # Zero) => FrameLines(NewOut) # <<>>
         /\ MsgsOf(NewOut, "[INFO] curenv %08x") = <<>>]_vars

=============================================================================
